---- MODULE Spec2Model ----
(***************************************************************************)
(* The in-memory consensus store (poset.InmemStore) as a state machine.    *)
(* Every exported operation of the store is one action.  The collaborators *)
(* of the store (the LRU cache, the rolling consensus index, the           *)
(* participant-events cache, the peer set, base roots) are modelled from   *)
(* their description in the specification of the store.                    *)
(***************************************************************************)
EXTENDS Integers, Sequences, FiniteSets, TLC

(* ------------------------------ bounds --------------------------------- *)

\* Longest sequence of operations explored when only the operations of one
\* part of the store (events, consensus, rounds, blocks, roots) are called.
MaxOps == 5
\* Longest sequence of operations explored when every operation is called.
MaxStoreOps == 3
\* Largest cacheSize a store is constructed with (1..MaxCacheSize).
MaxCacheSize == 2
\* Largest event index an inserted event carries (0..MaxIndex).
MaxIndex == 1
\* Largest round number / block index / frame round passed to a setter.
MaxRound == 1
\* Longest sequence of calls explored when calls of several threads overlap.
MaxOverlapOps == 3
\* Largest number of getter calls a reading thread makes.
MaxReads == 2

(* ----------------------------- universe -------------------------------- *)

\* Public keys of the peers that exist; a store is built with some of them
\* and the others may join later through the new-peer hook.
Peers == {"P1", "P2"}

\* The peer sets a store is constructed with.
InitialPeerSets == { {"P1"}, Peers }

\* peers.Peer.ID of a public key.
PeerID(p) == IF p = "P1" THEN 1 ELSE 2

\* Two events may carry the same creator and index (a fork); the variant
\* stands for the rest of the payload.
Variants == {"a", "b"}

\* The events handed to the store: one per creator and index, and a second
\* one (a fork) for the first event of P1.
Events ==
    { e \in [creator : Peers, index : 0..MaxIndex, variant : Variants] :
        e.variant = "b" => (e.creator = "P1" /\ e.index = 0) }

\* Event.Hash(): content-addressed, so distinct events have distinct hashes.
Hash(event) == <<"H", event.creator, event.index, event.variant>>

GetCreator(event) == event.creator

Index(event) == event.index

\* The first events of the creators, the fork among them: what the consensus
\* operations are called with where the index of an event plays no part.
FirstEvents == { e \in Events : Index(e) = 0 }

Rounds == 0..MaxRound

BlockIndexes == 0..MaxRound

\* RoundCreated payloads: the clotho hashes and the number of events.
RoundCreatedValues ==
    { [clotho |-> <<>>, events |-> 0],
      [clotho |-> <<Hash([creator |-> "P1", index |-> 0, variant |-> "a"])>>,
       events |-> 1] }

\* Error kinds of the error taxonomy; "nil" is no error.
NoErr == "nil"
KeyNotFound == "KeyNotFound"
NoRoot == "NoRoot"
Empty == "Empty"
TooLow == "TooLow"
SkippedIndex == "SkippedIndex"

(* ------------------------------- roots --------------------------------- *)

\* EventHash.Set(bytes): all byte strings of the model have the hash width,
\* so the assignment copies them unchanged.
HashSet(bytes) == bytes

\* NewBaseRoot(id): SelfParent.Index = -1 and a hash derived from the id.
NewBaseRoot(id) ==
    [Hash |-> <<"Root", id>>, CreatorID |-> id, Index |-> -1]

\* A root whose self-parent is a real event (what a bootstrap hands to Reset).
EventRoot(event) ==
    [Hash |-> Hash(event), CreatorID |-> PeerID(event.creator),
     Index |-> event.index]

\* The roots a caller may put into the map passed to Reset.
RootChoices ==
    { NewBaseRoot(PeerID(p)) : p \in Peers } \cup
    { EventRoot(e) : e \in { x \in Events : x.creator = "P1" /\ x.index = 0
                                            /\ x.variant = "a" } }

\* Every map[string]Root over the model's peers and roots.
RootMaps == UNION { [S -> RootChoices] : S \in SUBSET Peers }

Range(f) == { f[x] : x \in DOMAIN f }

\* m[k] = v on a Go map: the key is added or its value replaced.
MapPut(m, k, v) == [x \in DOMAIN m \cup {k} |-> IF x = k THEN v ELSE m[x]]

(* -------------------------------- LRU ---------------------------------- *)
\* An lru.Cache is a sequence of [key, value] entries, least recently used
\* first.

LruNew == <<>>

LruContains(c, k) == \E i \in 1..Len(c) : c[i].key = k

LruValue(c, k) == (CHOOSE i \in 1..Len(c) : c[i].key = k)

LruEntry(c, k) == c[LruValue(c, k)]

LruRemove(c, k) == SelectSeq(c, LAMBDA x : x.key # k)

\* Cache.Get: a hit makes the entry the most recently used one.
LruGet(c, k) ==
    IF LruContains(c, k) THEN Append(LruRemove(c, k), LruEntry(c, k)) ELSE c

\* Cache.Add: insert or overwrite as most recently used, evicting the least
\* recently used entry when the capacity is exceeded.
LruAdd(c, k, v, size) ==
    LET c1 == Append(LruRemove(c, k), [key |-> k, value |-> v])
    IN  IF Len(c1) > size THEN Tail(c1) ELSE c1

LruKeys(c) == { c[i].key : i \in 1..Len(c) }

(* ----------------------- rolling consensus index ----------------------- *)
\* cm.RollingIndex: a bounded FIFO addressed by a dense position, with the
\* total count of items kept apart from the retained window.

NewRollingIndex == [items |-> <<>>, total |-> 0]

RollingAppend(ri, item, position, size) ==
    LET all == Append(ri.items, item)
    IN  [items |-> IF Len(all) > size THEN Tail(all) ELSE all,
         total |-> position + 1]

\* RollingIndex.Set(item, position): the outcomes of one call, each with the
\* error returned and the index afterwards.  A call with position = total
\* appends.  Any other position breaks the contract of Set; what the index
\* does then is not fixed, so both a refusal and an append are outcomes.
RollingSetOutcomes(ri, item, position, size) ==
    IF position = ri.total
    THEN { [err |-> NoErr, index |-> RollingAppend(ri, item, position, size)] }
    ELSE { [err |-> IF position < ri.total THEN TooLow ELSE SkippedIndex,
            index |-> ri],
           [err |-> NoErr, index |-> RollingAppend(ri, item, position, size)] }

\* RollingIndex.GetLastWindow(): the retained suffix in order.
GetLastWindow(ri) == ri.items

(* ----------------------- participant-events cache ---------------------- *)
\* ParticipantEventsCache: per participant a bounded window of event hashes
\* (items, oldest first) and the highest index ever assigned (known, -1 when
\* none).  The window holds the indexes known - Len(items) + 1 .. known.

EmptyWindow == [items |-> <<>>, known |-> -1]

NewParticipantEventsCache(peerSet) == [p \in peerSet |-> EmptyWindow]

\* Import(other): bulk copy of the other cache's contents.
PecImport(new, old) ==
    [p \in DOMAIN new |-> IF p \in DOMAIN old THEN old[p] ELSE new[p]]

\* Reset(): clears every participant's window.
PecReset(cache) == [p \in DOMAIN cache |-> EmptyWindow]

PecLow(w) == w.known - Len(w.items) + 1

PecAppend(w, hash, index, size) ==
    LET all == Append(w.items, hash)
    IN  [items |-> IF Len(all) > size THEN Tail(all) ELSE all,
         known |-> index]

PecReplaceHead(w, hash) ==
    [w EXCEPT !.items = [w.items EXCEPT ![Len(w.items)] = hash]]

\* Set(participant, hash, index): the outcomes of one call.  The index must be
\* the next expected one.  Re-setting the current head is described both as
\* allowed and as rejected, so both are outcomes.  Every other index, and a
\* participant the cache was not created with, is an error.
PecSetOutcomes(cache, participant, hash, index, size) ==
    IF participant \notin DOMAIN cache
    THEN { [err |-> KeyNotFound, cache |-> cache] }
    ELSE LET w == cache[participant]
         IN  IF index = w.known + 1
             THEN { [err |-> NoErr,
                     cache |-> [cache EXCEPT ![participant] =
                                   PecAppend(w, hash, index, size)]] }
             ELSE IF index = w.known /\ Len(w.items) > 0
             THEN { [err |-> NoErr,
                     cache |-> [cache EXCEPT ![participant] =
                                   PecReplaceHead(w, hash)]],
                    [err |-> TooLow, cache |-> cache] }
             ELSE { [err |-> IF index > w.known THEN SkippedIndex ELSE TooLow,
                     cache |-> cache] }

\* GetItem(participant, index): exact lookup in the window.
PecGetItem(cache, participant, index) ==
    IF participant \notin DOMAIN cache
    THEN [err |-> KeyNotFound, hash |-> <<>>]
    ELSE LET w == cache[participant]
         IN  IF index > w.known THEN [err |-> KeyNotFound, hash |-> <<>>]
             ELSE IF index < PecLow(w) THEN [err |-> TooLow, hash |-> <<>>]
             ELSE [err |-> NoErr, hash |-> w.items[index - PecLow(w) + 1]]

\* GetLast(participant): the highest retained entry, Empty when none exists
\* (no other error is described, so also for a participant without a window).
PecGetLast(cache, participant) ==
    IF participant \notin DOMAIN cache
    THEN [err |-> Empty, hash |-> <<>>]
    ELSE LET w == cache[participant]
         IN  IF Len(w.items) = 0 THEN [err |-> Empty, hash |-> <<>>]
             ELSE [err |-> NoErr, hash |-> w.items[Len(w.items)]]

\* Get(participant, skip): the retained hashes with index > skip.
PecGet(cache, participant, skip) ==
    IF participant \notin DOMAIN cache
    THEN [err |-> KeyNotFound, hashes |-> <<>>]
    ELSE LET w == cache[participant]
             first == IF skip + 1 > PecLow(w) THEN skip + 1 ELSE PecLow(w)
         IN  [err |-> NoErr,
              hashes |-> SubSeq(w.items, first - PecLow(w) + 1, Len(w.items))]

\* Known(): participant id -> highest index ever assigned.
PecKnown(cache) ==
    [id \in { PeerID(p) : p \in DOMAIN cache } |->
        cache[CHOOSE p \in DOMAIN cache : PeerID(p) = id].known]

(* ------------------------------ threads ------------------------------- *)

\* The threads that call into the store when calls overlap.
Threads == {"T1", "T2"}

\* No thread holds the lock.
Free == "free"

\* The thread is not inside a call.
Idle == [pc |-> "idle"]

(* ------------------------------- state --------------------------------- *)

VARIABLES
    cacheSize,              \* InmemStore.cacheSize
    participants,           \* the public keys in InmemStore.participants
    eventCache,             \* LRU hash => Event
    roundCreatedCache,      \* LRU round number => RoundCreated
    roundReceivedCache,     \* LRU round number => RoundReceived
    blockCache,             \* LRU index => Block
    frameCache,             \* LRU round => Frame
    consensusCache,         \* rolling index: consensus position => hash
    totConsensusEvents,     \* InmemStore.totConsensusEvents
    repertoireByPubKey,     \* map public key => peer (a peer is named by its key)
    repertoireByID,         \* map id => peer
    participantEventsCache, \* participant-events cache
    rootsByParticipant,     \* map participant => Root
    rootsBySelfParent,      \* <<>> when nil, <<map>> when built
    lastRound,              \* InmemStore.lastRound
    lastConsensusEvents,    \* map participant => hash
    lastBlock,              \* InmemStore.lastBlock
    totConsensusEventsLocker, \* the thread holding the write lock, or Free
    calls,                  \* per thread: the call it is in the middle of
    obs,                    \* what overlapping calls returned, in order
    ops,                    \* number of operations performed so far
    limit,                  \* number of operations the callers perform
    last,                   \* the last operation: name, argument, error
    hist                    \* what the callers passed in so far (see Done)

vars ==
    << cacheSize, participants, eventCache, roundCreatedCache,
       roundReceivedCache, blockCache, frameCache, consensusCache,
       totConsensusEvents, repertoireByPubKey, repertoireByID,
       participantEventsCache, rootsByParticipant, rootsBySelfParent,
       lastRound, lastConsensusEvents, lastBlock, totConsensusEventsLocker,
       calls, obs, ops, limit, last, hist >>

\* The maps a rebuild of the reverse root index may produce: one entry per
\* self-parent hash; when several roots share a hash, the one the map
\* iteration visits last stays, and the iteration order is not fixed.
RebuildChoices(roots) ==
    LET hs == { HashSet(roots[p].Hash) : p \in DOMAIN roots }
    IN  { m \in [hs -> Range(roots)] : \A h \in hs : HashSet(m[h].Hash) = h }

\* setPeers(0, participants): the two repertoire mirrors of a peer set.
SetPeersByPubKey(peerSet) == [p \in peerSet |-> p]

SetPeersByID(peerSet) ==
    [id \in { PeerID(p) : p \in peerSet } |->
        CHOOSE p \in peerSet : PeerID(p) = id]

\* NewInmemStore(participants, cacheSize): the state after construction.
NewInmemStore ==
    /\ cacheSize \in 1..MaxCacheSize
    /\ participants \in InitialPeerSets
    /\ eventCache = LruNew
    /\ roundCreatedCache = LruNew
    /\ roundReceivedCache = LruNew
    /\ blockCache = LruNew
    /\ frameCache = LruNew
    /\ consensusCache = NewRollingIndex
    /\ totConsensusEvents = 0
    /\ repertoireByPubKey = SetPeersByPubKey(participants)
    /\ repertoireByID = SetPeersByID(participants)
    /\ participantEventsCache = NewParticipantEventsCache(participants)
    /\ rootsByParticipant = [p \in participants |-> NewBaseRoot(PeerID(p))]
    /\ rootsBySelfParent = <<>>
    /\ lastRound = -1
    /\ lastConsensusEvents = [p \in {} |-> <<>>]
    /\ lastBlock = -1
    /\ totConsensusEventsLocker = Free
    /\ calls = [t \in Threads |-> Idle]
    /\ obs = [pre |-> <<>>, post |-> <<>>, ops |-> 0, reads |-> <<>>]
    /\ ops = 0
    /\ last = [op |-> "NewInmemStore", arg |-> <<>>, err |-> NoErr,
               ret |-> <<>>]
    /\ hist = [reset |-> FALSE, added |-> <<>>, rounds |-> {}, created |-> {},
               inserted |-> {}, creators |-> {}]

\* A new store whose callers go on to call any of its operations.
Init == NewInmemStore /\ limit = MaxStoreOps

\* A new store whose callers go on to call the operations of one part of it.
InitPart == NewInmemStore /\ limit = MaxOps

\* A new store whose callers are threads whose calls overlap.
InitOverlap == NewInmemStore /\ limit = MaxOverlapOps

(* ------------------------------ getters -------------------------------- *)
\* What the read-only operations return in the current state.

\* GetEventBlock(hash): the error and the event (the cache is also touched,
\* see the action GetEventBlock).
EventBlock(hash) ==
    IF LruContains(eventCache, hash)
    THEN [err |-> NoErr, event |-> LruEntry(eventCache, hash).value]
    ELSE [err |-> KeyNotFound, event |-> <<>>]

\* GetRoot(participant)
GetRoot(participant) ==
    IF participant \in DOMAIN rootsByParticipant
    THEN [err |-> NoErr, root |-> rootsByParticipant[participant]]
    ELSE [err |-> KeyNotFound, root |-> <<>>]

\* ParticipantEvents(participant, skip)
ParticipantEvents(participant, skip) ==
    PecGet(participantEventsCache, participant, skip)

\* Mutant: the root also answers for the indexes below its own.
RootMatchesBelow(root, index) == index <= root.Index

\* ParticipantEvent answers with the root only for the root's own index.
RootMatches(root, index) == root.Index = index

\* ParticipantEvent(participant, index)
ParticipantEvent(participant, index) ==
    LET item == PecGetItem(participantEventsCache, participant, index)
    IN  IF item.err = NoErr THEN item
        ELSE IF participant \notin DOMAIN rootsByParticipant
        THEN [err |-> NoRoot, hash |-> item.hash]
        ELSE IF RootMatches(rootsByParticipant[participant], index)
        THEN [err |-> NoErr,
              hash |-> HashSet(rootsByParticipant[participant].Hash)]
        ELSE item

\* Mutant: LastEventFrom returns whatever GetLast reported.
FallsBackToRootNever(err) == FALSE

\* LastEventFrom goes on to the root only when GetLast reported Empty.
FallsBackToRoot(err) == ~(err = NoErr \/ err # Empty)

\* LastEventFrom(participant)
LastEventFrom(participant) ==
    LET got == PecGetLast(participantEventsCache, participant)
    IN  IF ~FallsBackToRoot(got.err)
        THEN [last |-> got.hash, isRoot |-> FALSE, err |-> got.err]
        ELSE IF participant \in DOMAIN rootsByParticipant
        THEN [last |-> HashSet(rootsByParticipant[participant].Hash),
              isRoot |-> TRUE, err |-> NoErr]
        ELSE [last |-> got.hash, isRoot |-> FALSE, err |-> NoRoot]

\* Mutant: KnownEvents never substitutes the root's index.
KnownSentinelNever(known) == FALSE

\* KnownEvents substitutes the root's index for a head of -1.
KnownSentinel(known) == known = -1

\* KnownEvents(): the known heads, with the root's self-parent index in place
\* of the sentinel for the participants that have a root.
KnownEvents ==
    LET known == PecKnown(participantEventsCache)
        pubKey(id) == CHOOSE p \in participants : PeerID(p) = id
    IN  [id \in DOMAIN known |->
            IF /\ id \in { PeerID(p) : p \in participants }
               /\ KnownSentinel(known[id])
               /\ pubKey(id) \in DOMAIN rootsByParticipant
            THEN rootsByParticipant[pubKey(id)].Index
            ELSE known[id]]

\* LastConsensusEventFrom(participant)
LastConsensusEventFrom(participant) ==
    IF participant \in DOMAIN lastConsensusEvents
    THEN [last |-> lastConsensusEvents[participant], isRoot |-> FALSE,
          err |-> NoErr]
    ELSE IF participant \in DOMAIN rootsByParticipant
    THEN [last |-> HashSet(rootsByParticipant[participant].Hash),
          isRoot |-> TRUE, err |-> NoErr]
    ELSE [last |-> <<>>, isRoot |-> FALSE, err |-> NoRoot]

\* ConsensusEvents()
ConsensusEvents == GetLastWindow(consensusCache)

\* ConsensusEventsCount()
ConsensusEventsCount == totConsensusEvents

\* LastRound()
LastRound == lastRound

\* LastBlockIndex()
LastBlockIndex == lastBlock

\* GetRoundCreated(r), GetRoundReceived(r), GetBlock(index): the error.
RoundCreatedErr(r) ==
    IF LruContains(roundCreatedCache, r) THEN NoErr ELSE KeyNotFound

RoundReceivedErr(r) ==
    IF LruContains(roundReceivedCache, r) THEN NoErr ELSE KeyNotFound

BlockErr(index) ==
    IF LruContains(blockCache, index) THEN NoErr ELSE KeyNotFound

(* ------------------------------ actions -------------------------------- *)

\* Book-keeping of a completed call, for stating the properties: the call
\* itself (last), and of the calls so far
\*   reset  - whether Reset was called since construction,
\*   added  - the hashes passed to AddConsensusEvent, in order, as long as
\*            Reset was not called,
\*   rounds - the round numbers passed to SetRoundCreated and
\*            SetRoundReceived since construction or the last Reset,
\*   created - those of them passed to SetRoundCreated,
\*   inserted - the events SetEvent registered for their creator since
\*            construction or the last Reset,
\*   creators - the creators of the events passed to AddConsensusEvent.
\* ret is the value the call returned besides the error.
History(op, arg, err) ==
    IF op = "Reset"
    THEN [hist EXCEPT !.reset = TRUE, !.added = <<>>, !.rounds = {},
                      !.created = {}, !.inserted = {}]
    ELSE IF op = "AddConsensusEvent"
    THEN [hist EXCEPT !.added = IF hist.reset THEN @ ELSE Append(@, Hash(arg)),
                      !.creators = @ \cup {GetCreator(arg)}]
    ELSE IF op = "SetRoundCreated"
    THEN [hist EXCEPT !.rounds = @ \cup {arg}, !.created = @ \cup {arg}]
    ELSE IF op = "SetRoundReceived"
    THEN [hist EXCEPT !.rounds = @ \cup {arg}]
    ELSE IF op = "SetEvent" /\ err = NoErr
              /\ ~LruContains(eventCache, Hash(arg))
    THEN [hist EXCEPT !.inserted = @ \cup {arg}]
    ELSE hist

Returned(op, arg, err, ret) ==
    /\ ops' = ops + 1
    /\ limit' = limit
    /\ last' = [op |-> op, arg |-> arg, err |-> err, ret |-> ret]
    /\ hist' = History(op, arg, err)
    /\ UNCHANGED << totConsensusEventsLocker, calls, obs >>

Done(op, arg, err) == Returned(op, arg, err, <<>>)

\* The state of the reverse root index after a call of RootsBySelfParent().
RootsBySelfParentResult(cached, roots) ==
    IF cached = <<>> THEN { <<m>> : m \in RebuildChoices(roots) } ELSE { cached }

\* RootsBySelfParent(): builds the reverse index when it is nil.
RootsBySelfParent ==
    /\ ops < limit
    /\ rootsBySelfParent' \in
           RootsBySelfParentResult(rootsBySelfParent, rootsByParticipant)
    /\ Done("RootsBySelfParent", <<>>, NoErr)
    /\ UNCHANGED << cacheSize, participants, eventCache, roundCreatedCache,
                    roundReceivedCache, blockCache, frameCache, consensusCache,
                    totConsensusEvents, repertoireByPubKey, repertoireByID,
                    participantEventsCache, rootsByParticipant, lastRound,
                    lastConsensusEvents, lastBlock >>

\* Mutant: the new-peer callback does not invalidate the reverse root index.
NewPeerNotInvalidated == rootsBySelfParent

\* The reverse root index as the new-peer callback leaves it before its
\* call of RootsBySelfParent().
NewPeerInvalidated == <<>>

\* Mutant: the new-peer callback creates the new cache and imports nothing.
NewPeerEventsCacheEmpty(old, peerSet) == NewParticipantEventsCache(peerSet)

\* The participant-events cache the new-peer callback installs: a new cache
\* for the grown peer set, with the old cache imported.
NewPeerEventsCache(old, peerSet) ==
    PecImport(NewParticipantEventsCache(peerSet), old)

\* Mutant: the new-peer callback registers a root that is not a base root.
NewPeerRootOfEvent(peer) ==
    EventRoot([creator |-> peer, index |-> 0, variant |-> "a"])

\* The root the new-peer callback registers for the peer.
NewPeerRoot(peer) == NewBaseRoot(PeerID(peer))

\* A peer joins: the peer set grows and calls the hook registered by
\* NewInmemStore.
NewPeer(peer) ==
    /\ ops < limit
    /\ peer \notin participants
    /\ participants' = participants \cup {peer}
    /\ rootsByParticipant' =
           MapPut(rootsByParticipant, peer, NewPeerRoot(peer))
    /\ repertoireByPubKey' = MapPut(repertoireByPubKey, peer, peer)
    /\ repertoireByID' = MapPut(repertoireByID, PeerID(peer), peer)
    /\ rootsBySelfParent' \in
           RootsBySelfParentResult(NewPeerInvalidated, rootsByParticipant')
    /\ participantEventsCache' =
           NewPeerEventsCache(participantEventsCache, participants')
    /\ Done("NewPeer", peer, NoErr)
    /\ UNCHANGED << cacheSize, eventCache, roundCreatedCache,
                    roundReceivedCache, blockCache, frameCache, consensusCache,
                    totConsensusEvents, lastRound, lastConsensusEvents,
                    lastBlock >>

\* GetEventBlock(hash): a hit makes the event the most recently used one.
GetEventBlock(hash) ==
    /\ ops < limit
    /\ eventCache' = LruGet(eventCache, hash)
    /\ Done("GetEventBlock", hash, EventBlock(hash).err)
    /\ UNCHANGED << cacheSize, participants, roundCreatedCache,
                    roundReceivedCache, blockCache, frameCache, consensusCache,
                    totConsensusEvents, repertoireByPubKey, repertoireByID,
                    participantEventsCache, rootsByParticipant,
                    rootsBySelfParent, lastRound, lastConsensusEvents,
                    lastBlock >>

\* Mutant: SetEvent registers the event on every call.
NeedsRegisteringAlways(event) == TRUE

\* SetEvent registers the event only when GetEventBlock reported KeyNotFound.
NeedsRegistering(event) == ~LruContains(eventCache, Hash(event))

\* SetEvent(event)
SetEvent(event) ==
    LET eventHash == Hash(event)
        looked == LruGet(eventCache, eventHash)
        outcomes ==
            IF NeedsRegistering(event)
            THEN PecSetOutcomes(participantEventsCache, GetCreator(event),
                                eventHash, Index(event), cacheSize)
            ELSE { [err |-> NoErr, cache |-> participantEventsCache] }
    IN  /\ ops < limit
        /\ \E out \in outcomes :
              /\ participantEventsCache' = out.cache
              /\ eventCache' =
                     IF out.err = NoErr
                     THEN LruAdd(looked, eventHash, event, cacheSize)
                     ELSE looked
              /\ Done("SetEvent", event, out.err)
        /\ UNCHANGED << cacheSize, participants, roundCreatedCache,
                        roundReceivedCache, blockCache, frameCache,
                        consensusCache, totConsensusEvents, repertoireByPubKey,
                        repertoireByID, rootsByParticipant, rootsBySelfParent,
                        lastRound, lastConsensusEvents, lastBlock >>

\* Mutant: AddConsensusEvent does not increment the count.
NextCountSame(count) == count

\* The count AddConsensusEvent leaves behind.
NextCount(count) == count + 1

\* Mutant: AddConsensusEvent passes the count after the increment.
SetPositionNext == totConsensusEvents + 1

\* The position AddConsensusEvent passes to RollingIndex.Set.
SetPosition == totConsensusEvents

\* AddConsensusEvent(event): the error of RollingIndex.Set is dropped.
AddConsensusEvent(event) ==
    /\ ops < limit
    /\ \E out \in RollingSetOutcomes(consensusCache, Hash(event),
                                     SetPosition, cacheSize) :
           consensusCache' = out.index
    /\ totConsensusEvents' = NextCount(totConsensusEvents)
    /\ lastConsensusEvents' =
           [p \in DOMAIN lastConsensusEvents \cup {GetCreator(event)} |->
               IF p = GetCreator(event) THEN Hash(event)
               ELSE lastConsensusEvents[p]]
    /\ Done("AddConsensusEvent", event, NoErr)
    /\ UNCHANGED << cacheSize, participants, eventCache, roundCreatedCache,
                    roundReceivedCache, blockCache, frameCache,
                    repertoireByPubKey, repertoireByID, participantEventsCache,
                    rootsByParticipant, rootsBySelfParent, lastRound,
                    lastBlock >>

\* Mutant: the setters assign lastRound without comparing.
NewLastRoundAssigned(r) == r

\* lastRound after a setter was called with round r.
NewLastRound(r) == IF r > lastRound THEN r ELSE lastRound

\* GetRoundCreated(r)
GetRoundCreated(r) ==
    /\ ops < limit
    /\ roundCreatedCache' = LruGet(roundCreatedCache, r)
    /\ Done("GetRoundCreated", r, RoundCreatedErr(r))
    /\ UNCHANGED << cacheSize, participants, eventCache, roundReceivedCache,
                    blockCache, frameCache, consensusCache, totConsensusEvents,
                    repertoireByPubKey, repertoireByID, participantEventsCache,
                    rootsByParticipant, rootsBySelfParent, lastRound,
                    lastConsensusEvents, lastBlock >>

\* SetRoundCreated(r, round)
SetRoundCreated(r, round) ==
    /\ ops < limit
    /\ roundCreatedCache' = LruAdd(roundCreatedCache, r, round, cacheSize)
    /\ lastRound' = NewLastRound(r)
    /\ Done("SetRoundCreated", r, NoErr)
    /\ UNCHANGED << cacheSize, participants, eventCache, roundReceivedCache,
                    blockCache, frameCache, consensusCache, totConsensusEvents,
                    repertoireByPubKey, repertoireByID, participantEventsCache,
                    rootsByParticipant, rootsBySelfParent, lastConsensusEvents,
                    lastBlock >>

\* NewRoundCreated(): a round without clothos and events.
NewRoundCreated == [clotho |-> <<>>, events |-> 0]

\* RoundCreated.Clotho() and len(RoundCreated.Message.Events).
Clotho(round) == round.clotho

EventsCount(round) == round.events

\* What GetRoundCreated(r) returns.
RoundCreated(r) ==
    IF LruContains(roundCreatedCache, r)
    THEN [err |-> NoErr, round |-> LruEntry(roundCreatedCache, r).value]
    ELSE [err |-> KeyNotFound, round |-> NewRoundCreated]

\* What RoundClothos returns when GetRoundCreated reported an error.
MissingRoundClothos == <<>>

\* Mutant: RoundEvents counts something for a round it did not find.
MissingRoundEventsCounted == Len(roundCreatedCache) + 1

\* What RoundEvents returns when GetRoundCreated reported an error.
MissingRoundEvents == 0

\* RoundClothos(r): GetRoundCreated(r), with its error swallowed.
RoundClothos(r) ==
    /\ ops < limit
    /\ roundCreatedCache' = LruGet(roundCreatedCache, r)
    /\ Returned("RoundClothos", r, NoErr,
                IF RoundCreated(r).err # NoErr THEN MissingRoundClothos
                ELSE Clotho(RoundCreated(r).round))
    /\ UNCHANGED << cacheSize, participants, eventCache, roundReceivedCache,
                    blockCache, frameCache, consensusCache, totConsensusEvents,
                    repertoireByPubKey, repertoireByID, participantEventsCache,
                    rootsByParticipant, rootsBySelfParent, lastRound,
                    lastConsensusEvents, lastBlock >>

\* RoundEvents(r): GetRoundCreated(r), with its error swallowed.
RoundEvents(r) ==
    /\ ops < limit
    /\ roundCreatedCache' = LruGet(roundCreatedCache, r)
    /\ Returned("RoundEvents", r, NoErr,
                IF RoundCreated(r).err # NoErr THEN MissingRoundEvents
                ELSE EventsCount(RoundCreated(r).round))
    /\ UNCHANGED << cacheSize, participants, eventCache, roundReceivedCache,
                    blockCache, frameCache, consensusCache, totConsensusEvents,
                    repertoireByPubKey, repertoireByID, participantEventsCache,
                    rootsByParticipant, rootsBySelfParent, lastRound,
                    lastConsensusEvents, lastBlock >>

\* GetRoundReceived(r)
GetRoundReceived(r) ==
    /\ ops < limit
    /\ roundReceivedCache' = LruGet(roundReceivedCache, r)
    /\ Done("GetRoundReceived", r, RoundReceivedErr(r))
    /\ UNCHANGED << cacheSize, participants, eventCache, roundCreatedCache,
                    blockCache, frameCache, consensusCache, totConsensusEvents,
                    repertoireByPubKey, repertoireByID, participantEventsCache,
                    rootsByParticipant, rootsBySelfParent, lastRound,
                    lastConsensusEvents, lastBlock >>

\* SetRoundReceived(r, round): the payload of a received round is opaque.
SetRoundReceived(r) ==
    /\ ops < limit
    /\ roundReceivedCache' =
           LruAdd(roundReceivedCache, r, "RoundReceived", cacheSize)
    /\ lastRound' = NewLastRound(r)
    /\ Done("SetRoundReceived", r, NoErr)
    /\ UNCHANGED << cacheSize, participants, eventCache, roundCreatedCache,
                    blockCache, frameCache, consensusCache, totConsensusEvents,
                    repertoireByPubKey, repertoireByID, participantEventsCache,
                    rootsByParticipant, rootsBySelfParent, lastConsensusEvents,
                    lastBlock >>

\* GetBlock(index)
GetBlock(index) ==
    /\ ops < limit
    /\ blockCache' = LruGet(blockCache, index)
    /\ Done("GetBlock", index, BlockErr(index))
    /\ UNCHANGED << cacheSize, participants, eventCache, roundCreatedCache,
                    roundReceivedCache, frameCache, consensusCache,
                    totConsensusEvents, repertoireByPubKey, repertoireByID,
                    participantEventsCache, rootsByParticipant,
                    rootsBySelfParent, lastRound, lastConsensusEvents,
                    lastBlock >>

\* lastBlock after SetBlock was called with a block of this index.
NewLastBlock(index) == IF index > lastBlock THEN index ELSE lastBlock

\* SetBlock(block): the block is named by its index, its payload is opaque.
SetBlock(index) ==
    /\ ops < limit
    /\ blockCache' = LruAdd(LruGet(blockCache, index), index, "Block", cacheSize)
    /\ lastBlock' = NewLastBlock(index)
    /\ Done("SetBlock", index, NoErr)
    /\ UNCHANGED << cacheSize, participants, eventCache, roundCreatedCache,
                    roundReceivedCache, frameCache, consensusCache,
                    totConsensusEvents, repertoireByPubKey, repertoireByID,
                    participantEventsCache, rootsByParticipant,
                    rootsBySelfParent, lastRound, lastConsensusEvents >>

\* GetFrame(index)
GetFrame(index) ==
    /\ ops < limit
    /\ frameCache' = LruGet(frameCache, index)
    /\ Done("GetFrame", index,
            IF LruContains(frameCache, index) THEN NoErr ELSE KeyNotFound)
    /\ UNCHANGED << cacheSize, participants, eventCache, roundCreatedCache,
                    roundReceivedCache, blockCache, consensusCache,
                    totConsensusEvents, repertoireByPubKey, repertoireByID,
                    participantEventsCache, rootsByParticipant,
                    rootsBySelfParent, lastRound, lastConsensusEvents,
                    lastBlock >>

\* SetFrame(frame): the frame is named by its round, its payload is opaque.
SetFrame(index) ==
    /\ ops < limit
    /\ frameCache' = LruAdd(LruGet(frameCache, index), index, "Frame", cacheSize)
    /\ Done("SetFrame", index, NoErr)
    /\ UNCHANGED << cacheSize, participants, eventCache, roundCreatedCache,
                    roundReceivedCache, blockCache, consensusCache,
                    totConsensusEvents, repertoireByPubKey, repertoireByID,
                    participantEventsCache, rootsByParticipant,
                    rootsBySelfParent, lastRound, lastConsensusEvents,
                    lastBlock >>

\* The caches Reset replaces by new ones, and the counters it rewinds.
ResetEventCache == LruNew

\* Mutant: Reset leaves lastRound as it is.
ResetLastRoundKept == lastRound

ResetLastRound == -1

ResetLastBlock == -1

\* Mutant: Reset replaces the block cache by a new one as well.
ResetBlockCacheNew == LruNew

\* Reset creates no new block cache: the store keeps the one it has.
ResetBlockCache == blockCache

\* Reset(roots)
Reset(roots) ==
    /\ ops < limit
    /\ blockCache' = ResetBlockCache
    /\ rootsByParticipant' = roots
    /\ eventCache' = ResetEventCache
    /\ roundCreatedCache' = LruNew
    /\ roundReceivedCache' = LruNew
    /\ consensusCache' = NewRollingIndex
    /\ participantEventsCache' = PecReset(participantEventsCache)
    /\ lastRound' = ResetLastRound
    /\ lastBlock' = ResetLastBlock
    /\ rootsBySelfParent' \in RootsBySelfParentResult(<<>>, roots)
    /\ Done("Reset", roots, NoErr)
    /\ UNCHANGED << cacheSize, participants, frameCache,
                    totConsensusEvents, repertoireByPubKey, repertoireByID,
                    lastConsensusEvents >>

\* Every operation of the store.
Next ==
    \/ RootsBySelfParent
    \/ \E peer \in Peers : NewPeer(peer)
    \/ \E hash \in { Hash(e) : e \in Events } : GetEventBlock(hash)
    \/ \E event \in Events : SetEvent(event)
    \/ \E event \in Events : AddConsensusEvent(event)
    \/ \E r \in Rounds : GetRoundCreated(r)
    \/ \E r \in Rounds, round \in RoundCreatedValues : SetRoundCreated(r, round)
    \/ \E r \in Rounds : GetRoundReceived(r)
    \/ \E r \in Rounds : SetRoundReceived(r)
    \/ \E r \in Rounds : RoundClothos(r)
    \/ \E r \in Rounds : RoundEvents(r)
    \/ \E index \in BlockIndexes : GetBlock(index)
    \/ \E index \in BlockIndexes : SetBlock(index)
    \/ \E index \in Rounds : GetFrame(index)
    \/ \E index \in Rounds : SetFrame(index)
    \/ \E roots \in RootMaps : Reset(roots)

Spec == Init /\ [][Next]_vars

\* The operations on the consensus index, with Reset and peers joining.
NextConsensus ==
    \/ \E event \in Events : AddConsensusEvent(event)
    \/ \E peer \in Peers : NewPeer(peer)
    \/ \E roots \in RootMaps : Reset(roots)

SpecConsensus == InitPart /\ [][NextConsensus]_vars

\* The operations on the round stores, with Reset.
NextRounds ==
    \/ \E r \in Rounds : GetRoundCreated(r)
    \/ \E r \in Rounds, round \in RoundCreatedValues : SetRoundCreated(r, round)
    \/ \E r \in Rounds : GetRoundReceived(r)
    \/ \E r \in Rounds : SetRoundReceived(r)
    \/ \E r \in Rounds : RoundClothos(r)
    \/ \E r \in Rounds : RoundEvents(r)
    \/ \E roots \in RootMaps : Reset(roots)

SpecRounds == InitPart /\ [][NextRounds]_vars

\* The operations on the block store, with Reset.
NextBlocks ==
    \/ \E index \in BlockIndexes : GetBlock(index)
    \/ \E index \in BlockIndexes : SetBlock(index)
    \/ \E roots \in RootMaps : Reset(roots)

SpecBlocks == InitPart /\ [][NextBlocks]_vars

\* The operations on the event index, with Reset and peers joining.
NextEvents ==
    \/ \E hash \in { Hash(e) : e \in Events } : GetEventBlock(hash)
    \/ \E event \in Events : SetEvent(event)
    \/ \E peer \in Peers : NewPeer(peer)
    \/ \E roots \in RootMaps : Reset(roots)

SpecEvents == InitPart /\ [][NextEvents]_vars

\* The operations on what Reset does not replace: blocks, frames, the last
\* consensus events and the repertoire, with Reset and peers joining.
NextRetained ==
    \/ \E index \in BlockIndexes : SetBlock(index)
    \/ \E index \in Rounds : SetFrame(index)
    \/ \E event \in FirstEvents : AddConsensusEvent(event)
    \/ \E peer \in Peers : NewPeer(peer)
    \/ \E roots \in RootMaps : Reset(roots)

SpecRetained == InitPart /\ [][NextRetained]_vars

\* The operations on the roots registry.
NextRoots ==
    \/ RootsBySelfParent
    \/ \E peer \in Peers : NewPeer(peer)
    \/ \E roots \in RootMaps : Reset(roots)

SpecRoots == InitPart /\ [][NextRoots]_vars

(* ----------------------- calls that overlap: Reset --------------------- *)
\* Reset takes lastRoundLocker and lastBlockLocker only around the two
\* assignments of lines 437-442; every other assignment of lines 430-436 is
\* made with no lock held.  When other threads call into the store during a
\* Reset, each assignment is therefore a step of its own.  The setters hold
\* their lock for the whole call and stay single steps.

\* The roots maps passed to a Reset that overlaps other calls: a root for P1.
OverlapRootMaps == [{"P1"} -> RootChoices]

\* The thread that calls Reset; the other threads set and read meanwhile.
Resetter == "T1"

\* A Reset is between its call and its return.
ResetRunning == calls[Resetter] # Idle

\* Reset(roots) is called: lines 413-427 create the new caches.  The values
\* the getters return before the call and after an uninterrupted Reset are
\* noted for the reader.
ResetCall(t, roots) ==
    /\ ops < limit
    /\ t = Resetter
    /\ calls[t] = Idle
    /\ calls' = [calls EXCEPT ![t] = [pc |-> "rootsByParticipant",
                                       roots |-> roots]]
    /\ obs' = [pre |-> [roots |-> rootsByParticipant, lastRound |-> lastRound,
                        lastBlock |-> lastBlock],
               post |-> [roots |-> roots, lastRound |-> ResetLastRound,
                         lastBlock |-> ResetLastBlock],
               ops |-> ops + 1,
               reads |-> <<>>]
    /\ ops' = ops + 1
    /\ UNCHANGED << cacheSize, participants, eventCache, roundCreatedCache,
                    roundReceivedCache, blockCache, frameCache,
                    consensusCache, totConsensusEvents, repertoireByPubKey,
                    repertoireByID, participantEventsCache,
                    rootsByParticipant, rootsBySelfParent, lastRound,
                    lastConsensusEvents, lastBlock, totConsensusEventsLocker,
                    limit, last, hist >>

\* s.rootsByParticipant = roots
StepRootsByParticipant(t) ==
    /\ calls[t].pc = "rootsByParticipant"
    /\ rootsByParticipant' = calls[t].roots
    /\ calls' = [calls EXCEPT ![t].pc = "rootsBySelfParent"]
    /\ UNCHANGED << cacheSize, participants, eventCache, roundCreatedCache,
                    roundReceivedCache, blockCache, frameCache,
                    consensusCache, totConsensusEvents, repertoireByPubKey,
                    repertoireByID, participantEventsCache, rootsBySelfParent,
                    lastRound, lastConsensusEvents, lastBlock,
                    totConsensusEventsLocker, obs, ops, limit, last, hist >>

\* s.rootsBySelfParent = nil
StepRootsBySelfParent(t) ==
    /\ calls[t].pc = "rootsBySelfParent"
    /\ rootsBySelfParent' = <<>>
    /\ calls' = [calls EXCEPT ![t].pc = "eventCache"]
    /\ UNCHANGED << cacheSize, participants, eventCache, roundCreatedCache,
                    roundReceivedCache, blockCache, frameCache,
                    consensusCache, totConsensusEvents, repertoireByPubKey,
                    repertoireByID, participantEventsCache,
                    rootsByParticipant, lastRound, lastConsensusEvents,
                    lastBlock, totConsensusEventsLocker, obs, ops, limit,
                    last, hist >>

\* s.eventCache = eventCache
StepEventCache(t) ==
    /\ calls[t].pc = "eventCache"
    /\ eventCache' = ResetEventCache
    /\ calls' = [calls EXCEPT ![t].pc = "roundCreatedCache"]
    /\ UNCHANGED << cacheSize, participants, roundCreatedCache,
                    roundReceivedCache, blockCache, frameCache,
                    consensusCache, totConsensusEvents, repertoireByPubKey,
                    repertoireByID, participantEventsCache,
                    rootsByParticipant, rootsBySelfParent, lastRound,
                    lastConsensusEvents, lastBlock, totConsensusEventsLocker,
                    obs, ops, limit, last, hist >>

\* s.roundCreatedCache = roundCache
StepRoundCreatedCache(t) ==
    /\ calls[t].pc = "roundCreatedCache"
    /\ roundCreatedCache' = LruNew
    /\ calls' = [calls EXCEPT ![t].pc = "roundReceivedCache"]
    /\ UNCHANGED << cacheSize, participants, eventCache, roundReceivedCache,
                    blockCache, frameCache, consensusCache,
                    totConsensusEvents, repertoireByPubKey, repertoireByID,
                    participantEventsCache, rootsByParticipant,
                    rootsBySelfParent, lastRound, lastConsensusEvents,
                    lastBlock, totConsensusEventsLocker, obs, ops, limit,
                    last, hist >>

\* s.roundReceivedCache = roundReceivedCache
StepRoundReceivedCache(t) ==
    /\ calls[t].pc = "roundReceivedCache"
    /\ roundReceivedCache' = LruNew
    /\ calls' = [calls EXCEPT ![t].pc = "consensusCache"]
    /\ UNCHANGED << cacheSize, participants, eventCache, roundCreatedCache,
                    blockCache, frameCache, consensusCache,
                    totConsensusEvents, repertoireByPubKey, repertoireByID,
                    participantEventsCache, rootsByParticipant,
                    rootsBySelfParent, lastRound, lastConsensusEvents,
                    lastBlock, totConsensusEventsLocker, obs, ops, limit,
                    last, hist >>

\* s.consensusCache = cm.NewRollingIndex(...)
StepConsensusCache(t) ==
    /\ calls[t].pc = "consensusCache"
    /\ consensusCache' = NewRollingIndex
    /\ calls' = [calls EXCEPT ![t].pc = "participantEventsCache"]
    /\ UNCHANGED << cacheSize, participants, eventCache, roundCreatedCache,
                    roundReceivedCache, blockCache, frameCache,
                    totConsensusEvents, repertoireByPubKey, repertoireByID,
                    participantEventsCache, rootsByParticipant,
                    rootsBySelfParent, lastRound, lastConsensusEvents,
                    lastBlock, totConsensusEventsLocker, obs, ops, limit,
                    last, hist >>

\* s.participantEventsCache.Reset()
StepParticipantEvents(t) ==
    /\ calls[t].pc = "participantEventsCache"
    /\ participantEventsCache' = PecReset(participantEventsCache)
    /\ calls' = [calls EXCEPT ![t].pc = "lastRound"]
    /\ UNCHANGED << cacheSize, participants, eventCache, roundCreatedCache,
                    roundReceivedCache, blockCache, frameCache,
                    consensusCache, totConsensusEvents, repertoireByPubKey,
                    repertoireByID, rootsByParticipant, rootsBySelfParent,
                    lastRound, lastConsensusEvents, lastBlock,
                    totConsensusEventsLocker, obs, ops, limit, last, hist >>

\* s.lastRound = -1, under lastRoundLocker
StepLastRound(t) ==
    /\ calls[t].pc = "lastRound"
    /\ lastRound' = ResetLastRound
    /\ calls' = [calls EXCEPT ![t].pc = "lastBlock"]
    /\ UNCHANGED << cacheSize, participants, eventCache, roundCreatedCache,
                    roundReceivedCache, blockCache, frameCache,
                    consensusCache, totConsensusEvents, repertoireByPubKey,
                    repertoireByID, participantEventsCache,
                    rootsByParticipant, rootsBySelfParent,
                    lastConsensusEvents, lastBlock, totConsensusEventsLocker,
                    obs, ops, limit, last, hist >>

\* s.lastBlock = -1, under lastBlockLocker
StepLastBlock(t) ==
    /\ calls[t].pc = "lastBlock"
    /\ lastBlock' = ResetLastBlock
    /\ calls' = [calls EXCEPT ![t].pc = "return"]
    /\ UNCHANGED << cacheSize, participants, eventCache, roundCreatedCache,
                    roundReceivedCache, blockCache, frameCache,
                    consensusCache, totConsensusEvents, repertoireByPubKey,
                    repertoireByID, participantEventsCache,
                    rootsByParticipant, rootsBySelfParent, lastRound,
                    lastConsensusEvents, totConsensusEventsLocker, obs, ops,
                    limit, last, hist >>

\* Lines 444-448: the reverse index is rebuilt and Reset returns.
ResetReturn(t) ==
    /\ calls[t].pc = "return"
    /\ rootsBySelfParent' \in
           RootsBySelfParentResult(rootsBySelfParent, rootsByParticipant)
    /\ calls' = [calls EXCEPT ![t] = Idle]
    /\ last' = [op |-> "Reset", arg |-> calls[t].roots, err |-> NoErr,
                ret |-> <<>>]
    /\ hist' = History("Reset", calls[t].roots, NoErr)
    /\ UNCHANGED << cacheSize, participants, eventCache, roundCreatedCache,
                    roundReceivedCache, blockCache, frameCache,
                    consensusCache, totConsensusEvents, repertoireByPubKey,
                    repertoireByID, participantEventsCache,
                    rootsByParticipant, lastRound, lastConsensusEvents,
                    lastBlock, totConsensusEventsLocker, obs, ops, limit >>

\* What a getter returned to the reader, and whether no other call was made
\* since the Reset was called, is appended to the reads.
Observed(get, arg, val) ==
    /\ obs' = [obs EXCEPT !.reads =
                   Append(@, [get |-> get, arg |-> arg, val |-> val,
                              quiet |-> ops = obs.ops])]
    /\ UNCHANGED << cacheSize, participants, eventCache, roundCreatedCache,
                    roundReceivedCache, blockCache, frameCache,
                    consensusCache, totConsensusEvents, repertoireByPubKey,
                    repertoireByID, participantEventsCache,
                    rootsByParticipant, rootsBySelfParent, lastRound,
                    lastConsensusEvents, lastBlock, totConsensusEventsLocker,
                    calls, ops, limit, last, hist >>

\* GetRoot(participant) by the reader while a Reset is running.
ReadRoot(participant) ==
    /\ ResetRunning
    /\ Len(obs.reads) < MaxReads
    /\ Observed("GetRoot", participant, GetRoot(participant))

\* LastRound() by the reader while a Reset is running.
ReadLastRound ==
    /\ ResetRunning
    /\ Len(obs.reads) < MaxReads
    /\ Observed("LastRound", <<>>, LastRound)

\* LastBlockIndex() by the reader while a Reset is running.
ReadLastBlock ==
    /\ ResetRunning
    /\ Len(obs.reads) < MaxReads
    /\ Observed("LastBlockIndex", <<>>, LastBlockIndex)

\* Reset running in one thread while another sets rounds and blocks and a
\* third reads.
NextReset ==
    \/ \E r \in Rounds, round \in RoundCreatedValues : SetRoundCreated(r, round)
    \/ \E r \in Rounds : SetRoundReceived(r)
    \/ \E index \in BlockIndexes : SetBlock(index)
    \/ \E roots \in OverlapRootMaps : ResetCall(Resetter, roots)
    \/ StepRootsByParticipant(Resetter)
    \/ StepRootsBySelfParent(Resetter)
    \/ StepEventCache(Resetter)
    \/ StepRoundCreatedCache(Resetter)
    \/ StepRoundReceivedCache(Resetter)
    \/ StepConsensusCache(Resetter)
    \/ StepParticipantEvents(Resetter)
    \/ StepLastRound(Resetter)
    \/ StepLastBlock(Resetter)
    \/ ResetReturn(Resetter)
    \/ \E p \in Peers : ReadRoot(p)
    \/ ReadLastRound
    \/ ReadLastBlock

SpecReset == InitOverlap /\ [][NextReset]_vars

(* ---------------- calls that overlap: the consensus counter ------------ *)
\* AddConsensusEvent holds the write lock of totConsensusEventsLocker from its
\* first statement to its return; ConsensusEventsCount holds the read lock.
\* Each statement of AddConsensusEvent is a step of the calling thread.

\* Mutant: AddConsensusEvent goes on without waiting for the lock.
LockFreeAlways == TRUE

\* Lock() and RLock() go on when no thread holds the write lock.
LockFree == totConsensusEventsLocker = Free

\* The number of ConsensusEventsCount() results among the returns so far.
CountReads ==
    Cardinality({ i \in 1..Len(obs.reads) :
                    obs.reads[i].get = "ConsensusEventsCount" })

\* AddConsensusEvent(event) is called by thread t.
AddCall(t, event) ==
    /\ ops < limit
    /\ calls[t] = Idle
    /\ calls' = [calls EXCEPT ![t] = [pc |-> "Lock", event |-> event]]
    /\ ops' = ops + 1
    /\ UNCHANGED << cacheSize, participants, eventCache, roundCreatedCache,
                    roundReceivedCache, blockCache, frameCache,
                    consensusCache, totConsensusEvents, repertoireByPubKey,
                    repertoireByID, participantEventsCache,
                    rootsByParticipant, rootsBySelfParent, lastRound,
                    lastConsensusEvents, lastBlock, totConsensusEventsLocker,
                    obs, limit, last, hist >>

\* s.totConsensusEventsLocker.Lock()
AddLock(t) ==
    /\ calls[t].pc = "Lock"
    /\ LockFree
    /\ totConsensusEventsLocker' = t
    /\ calls' = [calls EXCEPT ![t].pc = "Set"]
    /\ UNCHANGED << cacheSize, participants, eventCache, roundCreatedCache,
                    roundReceivedCache, blockCache, frameCache,
                    consensusCache, totConsensusEvents, repertoireByPubKey,
                    repertoireByID, participantEventsCache,
                    rootsByParticipant, rootsBySelfParent, lastRound,
                    lastConsensusEvents, lastBlock, obs, ops, limit, last,
                    hist >>

\* s.consensusCache.Set(event.Hash(), s.totConsensusEvents); the position
\* passed is kept with the call.
AddSet(t) ==
    /\ calls[t].pc = "Set"
    /\ \E out \in RollingSetOutcomes(consensusCache, Hash(calls[t].event),
                                     SetPosition, cacheSize) :
           consensusCache' = out.index
    /\ calls' = [calls EXCEPT ![t] =
                     [pc |-> "Count", event |-> calls[t].event,
                      position |-> SetPosition]]
    /\ UNCHANGED << cacheSize, participants, eventCache, roundCreatedCache,
                    roundReceivedCache, blockCache, frameCache,
                    totConsensusEvents, repertoireByPubKey, repertoireByID,
                    participantEventsCache, rootsByParticipant,
                    rootsBySelfParent, lastRound, lastConsensusEvents,
                    lastBlock, totConsensusEventsLocker, obs, ops, limit,
                    last, hist >>

\* s.totConsensusEvents++
AddCount(t) ==
    /\ calls[t].pc = "Count"
    /\ totConsensusEvents' = NextCount(totConsensusEvents)
    /\ calls' = [calls EXCEPT ![t].pc = "Last"]
    /\ UNCHANGED << cacheSize, participants, eventCache, roundCreatedCache,
                    roundReceivedCache, blockCache, frameCache,
                    consensusCache, repertoireByPubKey, repertoireByID,
                    participantEventsCache, rootsByParticipant,
                    rootsBySelfParent, lastRound, lastConsensusEvents,
                    lastBlock, totConsensusEventsLocker, obs, ops, limit,
                    last, hist >>

\* s.lastConsensusEvents[event.GetCreator()] = event.Hash()
AddLast(t) ==
    /\ calls[t].pc = "Last"
    /\ lastConsensusEvents' =
           MapPut(lastConsensusEvents, GetCreator(calls[t].event),
                  Hash(calls[t].event))
    /\ calls' = [calls EXCEPT ![t].pc = "Unlock"]
    /\ UNCHANGED << cacheSize, participants, eventCache, roundCreatedCache,
                    roundReceivedCache, blockCache, frameCache,
                    consensusCache, totConsensusEvents, repertoireByPubKey,
                    repertoireByID, participantEventsCache,
                    rootsByParticipant, rootsBySelfParent, lastRound,
                    lastBlock, totConsensusEventsLocker, obs, ops, limit,
                    last, hist >>

\* The deferred Unlock() and the return of nil.
AddReturn(t) ==
    /\ calls[t].pc = "Unlock"
    /\ totConsensusEventsLocker' = Free
    /\ calls' = [calls EXCEPT ![t] = Idle]
    /\ obs' = [obs EXCEPT !.reads =
                   Append(@, [get |-> "AddConsensusEvent",
                              arg |-> calls[t].event,
                              val |-> calls[t].position])]
    /\ last' = [op |-> "AddConsensusEvent", arg |-> calls[t].event,
                err |-> NoErr, ret |-> <<>>]
    /\ hist' = History("AddConsensusEvent", calls[t].event, NoErr)
    /\ UNCHANGED << cacheSize, participants, eventCache, roundCreatedCache,
                    roundReceivedCache, blockCache, frameCache,
                    consensusCache, totConsensusEvents, repertoireByPubKey,
                    repertoireByID, participantEventsCache,
                    rootsByParticipant, rootsBySelfParent, lastRound,
                    lastConsensusEvents, lastBlock, ops, limit >>

\* ConsensusEventsCount() by thread t: RLock(), the read, RUnlock().
CountRead(t) ==
    /\ calls[t] = Idle
    /\ LockFree
    /\ CountReads < MaxReads
    /\ obs' = [obs EXCEPT !.reads =
                   Append(@, [get |-> "ConsensusEventsCount", arg |-> <<>>,
                              val |-> ConsensusEventsCount])]
    /\ UNCHANGED << cacheSize, participants, eventCache, roundCreatedCache,
                    roundReceivedCache, blockCache, frameCache,
                    consensusCache, totConsensusEvents, repertoireByPubKey,
                    repertoireByID, participantEventsCache,
                    rootsByParticipant, rootsBySelfParent, lastRound,
                    lastConsensusEvents, lastBlock, totConsensusEventsLocker,
                    calls, ops, limit, last, hist >>

\* Threads adding consensus events and reading the count at the same time.
NextCounter ==
    \/ \E t \in Threads, event \in FirstEvents : AddCall(t, event)
    \/ \E t \in Threads : AddLock(t)
    \/ \E t \in Threads : AddSet(t)
    \/ \E t \in Threads : AddCount(t)
    \/ \E t \in Threads : AddLast(t)
    \/ \E t \in Threads : AddReturn(t)
    \/ \E t \in Threads : CountRead(t)

SpecCounter == InitOverlap /\ [][NextCounter]_vars

(* ------------------------------- claims -------------------------------- *)

\* C1: after Reset(roots) returns, ConsensusEventsCount() is 0, whatever the
\* number of AddConsensusEvent calls before it.  Reset replaces the rolling
\* index but never assigns totConsensusEvents, so this fails after one
\* AddConsensusEvent.
C1_ResetRewindsCount ==
    last.op = "Reset" => ConsensusEventsCount = 0

\* C2: after Reset(roots) returns, following any calls of the setters,
\* LastRound() and LastBlockIndex() are -1, ConsensusEvents() is empty,
\* GetRoot(p) returns roots[p] for every p of roots, and GetEventBlock(h)
\* returns key-not-found for every hash.
C2_ResetPost ==
    last.op = "Reset" =>
        /\ LastRound = -1
        /\ LastBlockIndex = -1
        /\ ConsensusEvents = <<>>
        /\ \A p \in DOMAIN last.arg :
               GetRoot(p) = [err |-> NoErr, root |-> last.arg[p]]
        /\ \A e \in Events : EventBlock(Hash(e)).err = KeyNotFound

\* A Reset with a root for P1 that is not its base root, after a block was
\* set and a consensus event was added.
C2_Witness ==
    /\ last.op = "Reset"
    /\ "P1" \in DOMAIN last.arg
    /\ last.arg["P1"] # NewBaseRoot(PeerID("P1"))
    /\ Len(blockCache) > 0
    /\ totConsensusEvents > 0

\* The maps RootsBySelfParent() may return in the current state.
ReverseIndexes ==
    { r[1] : r \in RootsBySelfParentResult(rootsBySelfParent, rootsByParticipant) }

RootHashes == { HashSet(rootsByParticipant[p].Hash) : p \in DOMAIN rootsByParticipant }

DistinctRootHashes ==
    \A p, q \in DOMAIN rootsByParticipant :
        HashSet(rootsByParticipant[p].Hash) = HashSet(rootsByParticipant[q].Hash)
            => p = q

\* C3 as stated: in every state the map returned by RootsBySelfParent() has as
\* many entries as rootsByParticipant has keys, and every registered root is
\* found under its own SelfParent.Hash; also after a Reset with an arbitrary
\* roots map.
C3_OneEntryPerParticipant ==
    \A m \in ReverseIndexes :
        /\ Cardinality(DOMAIN m) = Cardinality(DOMAIN rootsByParticipant)
        /\ \A p \in DOMAIN rootsByParticipant :
               /\ HashSet(rootsByParticipant[p].Hash) \in DOMAIN m
               /\ m[HashSet(rootsByParticipant[p].Hash)] = rootsByParticipant[p]

\* C3 amended: in every state the map returned by RootsBySelfParent() has
\* exactly one entry per distinct SelfParent.Hash of the registered roots, each
\* entry a registered root with that hash; when the registered roots have
\* pairwise distinct hashes this is one entry per participant, each root found
\* under its own hash.
C3_OneEntryPerRootHash ==
    \A m \in ReverseIndexes :
        /\ DOMAIN m = RootHashes
        /\ \A h \in DOMAIN m :
               /\ m[h] \in Range(rootsByParticipant)
               /\ HashSet(m[h].Hash) = h
        /\ DistinctRootHashes =>
               /\ Cardinality(DOMAIN m) = Cardinality(DOMAIN rootsByParticipant)
               /\ \A p \in DOMAIN rootsByParticipant :
                      m[HashSet(rootsByParticipant[p].Hash)] = rootsByParticipant[p]

\* After a peer joined a store whose reverse index had been built for a
\* Reset, the index holds two entries, one of them not a base root.
C3_Witness ==
    /\ last.op = "NewPeer"
    /\ hist.reset
    /\ Len(rootsBySelfParent) = 1
    /\ Cardinality(DOMAIN rootsBySelfParent[1]) = 2
    /\ \E h \in DOMAIN rootsBySelfParent[1] : rootsBySelfParent[1][h].Index # -1

\* C4: ConsensusEventsCount() never decreases in a step that is not a Reset,
\* whatever operation the step is, and every AddConsensusEvent raises it by
\* exactly 1.
C4_CountMonotonic ==
    [][ /\ last'.op # "Reset" => ConsensusEventsCount' >= ConsensusEventsCount
        /\ last'.op = "AddConsensusEvent" =>
               ConsensusEventsCount' = ConsensusEventsCount + 1 ]_vars

\* Two AddConsensusEvent calls and one other operation.
C4_Witness ==
    /\ ops = 3
    /\ last.op = "AddConsensusEvent"
    /\ ConsensusEventsCount = 2
    /\ ~hist.reset

Min(a, b) == IF a < b THEN a ELSE b

\* The last n elements of a sequence.
LastN(seq, n) == SubSeq(seq, Len(seq) - n + 1, Len(seq))

\* C6: after n AddConsensusEvent calls and no Reset, ConsensusEventsCount() is
\* n and ConsensusEvents() is the last min(n, cacheSize) added hashes in the
\* order they were added.
C6_CountSurvivesEviction ==
    ~hist.reset =>
        /\ ConsensusEventsCount = Len(hist.added)
        /\ ConsensusEvents =
               LastN(hist.added, Min(Len(hist.added), cacheSize))

\* cacheSize 2 and three distinct events: count 3, window of the last two.
C6_Witness ==
    /\ ~hist.reset
    /\ cacheSize = 2
    /\ Len(hist.added) = 3
    /\ Cardinality({ hist.added[i] : i \in 1..3 }) = 3
    /\ ConsensusEventsCount = 3
    /\ ConsensusEvents = <<hist.added[2], hist.added[3]>>

\* The largest element of a non-empty set of integers.
MaxOf(S) == CHOOSE x \in S : \A y \in S : y <= x

\* C7: with no Reset, LastRound() is the largest round number passed to
\* SetRoundCreated or SetRoundReceived so far, and -1 when there was none,
\* also when that round is no longer in its cache.
C7_LastRoundIsMax ==
    ~hist.reset => LastRound = MaxOf(hist.rounds \cup {-1})

\* A received round below the last round was set, and the round with the
\* largest number is in neither cache any more.
C7_Witness ==
    /\ ~hist.reset
    /\ last.op = "SetRoundReceived"
    /\ last.arg < LastRound
    /\ RoundCreatedErr(LastRound) = KeyNotFound
    /\ RoundReceivedErr(LastRound) = KeyNotFound

\* C8 as stated: in every state, also after a Reset, LastBlockIndex() is at
\* least every index for which GetBlock succeeds, and it is -1 when no block
\* was set.  Reset rewinds lastBlock and keeps the block cache, so it fails
\* after SetBlock and Reset.
C8_LastBlockBound ==
    /\ \A index \in BlockIndexes :
           BlockErr(index) = NoErr => LastBlockIndex >= index
    /\ Len(blockCache) = 0 => LastBlockIndex = -1

Occurrences(seq, x) == Cardinality({ i \in 1..Len(seq) : seq[i] = x })

\* What C9 says of a SetEvent whose hash is already in the event cache: no
\* error, the participant-events index unchanged, the hash at most once in it.
C9_Present(e) ==
    /\ last'.err = NoErr
    /\ participantEventsCache' = participantEventsCache
    /\ Occurrences(ParticipantEvents(GetCreator(e), -1).hashes, Hash(e)) <= 1

\* The event is in the event cache and registered at its index.
C9_Registered(e) ==
    /\ EventBlock(Hash(e)).err = NoErr
    /\ PecGetItem(participantEventsCache, GetCreator(e), Index(e)) =
           [err |-> NoErr, hash |-> Hash(e)]

\* C9 as stated: SetEvent(e) with e.hash in the event cache returns no error
\* and leaves the participant-events index unchanged; with the hash absent it
\* inserts the event and registers the hash at e.index for e.creator.
C9_SetEventIdempotent ==
    [][ \A e \in Events :
            (last'.op = "SetEvent" /\ last'.arg = e) =>
                /\ ~NeedsRegistering(e) => C9_Present(e)
                /\ NeedsRegistering(e) => C9_Registered(e)'
      ]_vars

\* C9 amended: SetEvent(e) with e.hash in the event cache returns no error and
\* leaves the participant-events index unchanged; with the hash absent it
\* inserts the event and registers the hash at e.index for e.creator when the
\* participant-events Set accepts the index, and otherwise returns the error
\* of Set and changes neither the event cache nor the index.
C9_SetEventIdempotentOrError ==
    [][ \A e \in Events :
            (last'.op = "SetEvent" /\ last'.arg = e) =>
                /\ ~NeedsRegistering(e) => C9_Present(e)
                /\ NeedsRegistering(e) =>
                       IF last'.err = NoErr
                       THEN C9_Registered(e)'
                       ELSE /\ eventCache' = eventCache
                            /\ participantEventsCache' = participantEventsCache
      ]_vars

\* An event was inserted a second time while in the event cache, and its
\* creator's events hold its hash once.
C9_Witness ==
    /\ last.op = "SetEvent"
    /\ last.err = NoErr
    /\ ops = 2
    /\ Len(eventCache) = 1
    /\ ParticipantEvents(GetCreator(last.arg), -1).hashes = <<Hash(last.arg)>>

\* The entry of participant p at index i stays in p's window in this step.
C10_StaysInWindow(p, i) ==
    /\ p \in DOMAIN participantEventsCache'
    /\ i >= PecLow(participantEventsCache'[p])

\* This step is a SetEvent that registers another event at index i of p.
C10_Overwrites(p, i, hash) ==
    /\ last'.op = "SetEvent"
    /\ last'.err = NoErr
    /\ GetCreator(last'.arg) = p
    /\ Index(last'.arg) = i
    /\ Hash(last'.arg) # hash

\* C10 as stated: once SetEvent(e) returned nil, ParticipantEvent(e.creator,
\* e.index) returns e.hash in every later state until the entry is evicted
\* from the creator's window or a Reset is performed.
C10_ParticipantEventKept ==
    [][ /\ \A e \in Events :
               (last'.op = "SetEvent" /\ last'.arg = e /\ last'.err = NoErr
                  /\ C10_StaysInWindow(GetCreator(e), Index(e)))
                 => ParticipantEvent(GetCreator(e), Index(e))' =
                        [err |-> NoErr, hash |-> Hash(e)]
        /\ \A p \in Peers, i \in 0..MaxIndex :
               LET item == PecGetItem(participantEventsCache, p, i)
               IN  (item.err = NoErr /\ last'.op # "Reset"
                      /\ C10_StaysInWindow(p, i))
                     => ParticipantEvent(p, i)' = item
      ]_vars

\* C10 amended: once SetEvent(e) registered e (the hash was not in the event
\* cache and SetEvent returned nil), ParticipantEvent(e.creator, e.index)
\* returns e.hash in every later state until the entry is evicted from the
\* creator's window, a Reset is performed, or a SetEvent registers another
\* event at the same index of the same creator.
C10_ParticipantEventKeptUntilOverwritten ==
    [][ /\ \A e \in Events :
               (last'.op = "SetEvent" /\ last'.arg = e /\ last'.err = NoErr
                  /\ NeedsRegistering(e))
                 => ParticipantEvent(GetCreator(e), Index(e))' =
                        [err |-> NoErr, hash |-> Hash(e)]
        /\ \A p \in Peers, i \in 0..MaxIndex :
               LET item == PecGetItem(participantEventsCache, p, i)
               IN  (item.err = NoErr /\ last'.op # "Reset"
                      /\ C10_StaysInWindow(p, i)
                      /\ ~C10_Overwrites(p, i, item.hash))
                     => ParticipantEvent(p, i)' = item
      ]_vars

\* An event that was registered, is still in its creator's window and is no
\* longer in the event cache, after a peer joined.
C10_Witness ==
    \E e \in Events :
        /\ EventBlock(Hash(e)).err = KeyNotFound
        /\ ParticipantEvent(GetCreator(e), Index(e)) =
               [err |-> NoErr, hash |-> Hash(e)]
        /\ PecGetItem(participantEventsCache, GetCreator(e), Index(e)).err = NoErr
        /\ last.op = "NewPeer"

\* The events of participant p registered since construction or the last
\* Reset, and the largest index among them.
InsertedOf(p) == { e \in hist.inserted : GetCreator(e) = p }

HighestInserted(p) == MaxOf({ Index(e) : e \in InsertedOf(p) })

C12_NoRoot ==
    \A p \in Peers :
        p \notin DOMAIN rootsByParticipant =>
            /\ InsertedOf(p) = {} =>
                   /\ LastEventFrom(p).err = NoRoot
                   /\ ~LastEventFrom(p).isRoot
            /\ p \notin hist.creators =>
                   /\ LastConsensusEventFrom(p).err = NoRoot
                   /\ ~LastConsensusEventFrom(p).isRoot

\* P2 was never registered; P1 had a consensus event added, and then a Reset
\* left it without a root and with an empty window.
C12_Witness ==
    /\ last.op = "Reset"
    /\ participants = {"P1"}
    /\ DOMAIN rootsByParticipant = {}
    /\ hist.creators = {"P1"}
    /\ LastEventFrom("P1").err = NoRoot
    /\ LastConsensusEventFrom("P1").err = NoErr
    /\ LastEventFrom("P2").err = NoRoot
    /\ LastConsensusEventFrom("P2").err = NoRoot
    /\ Len(participantEventsCache["P1"].items) = 0

\* What C13 says of the repertoire, the root and the participant events
\* after the new-peer callback ran for the peer.
C13_Registered(peer) ==
    /\ PeerID(peer) \in DOMAIN repertoireByID'
    /\ repertoireByID'[PeerID(peer)] = peer
    /\ peer \in DOMAIN repertoireByPubKey'
    /\ repertoireByPubKey'[peer] = peer
    /\ GetRoot(peer)'.err = NoErr
    /\ GetRoot(peer)'.root = NewBaseRoot(PeerID(peer))
    /\ GetRoot(peer)'.root.Index = -1
    /\ \A p \in participants :
           ParticipantEvents(p, -1)' = ParticipantEvents(p, -1)

\* C13 as stated: after the new-peer callback ran for a peer not known before,
\* both repertoire mirrors hold the peer, GetRoot returns a base root of index
\* -1 for it, RootsBySelfParent() has one entry more than before (two when the
\* store was built with one participant), and ParticipantEvents(p, -1) is the
\* same as before for every participant known before.
C13_PeerJoin ==
    [][ \A peer \in Peers :
            (last'.op = "NewPeer" /\ last'.arg = peer) =>
                /\ C13_Registered(peer)
                /\ \A before \in ReverseIndexes : \A after \in ReverseIndexes' :
                       /\ Cardinality(DOMAIN after) =
                              Cardinality(DOMAIN before) + 1
                       /\ Cardinality(participants) = 1 =>
                              Cardinality(DOMAIN after) = 2
      ]_vars

\* C13 amended: as stated for the repertoire, the root and the participant
\* events; RootsBySelfParent() has one entry per distinct SelfParent.Hash of
\* the registered roots, the peer's base root among them, which is one entry
\* more than before when the peer had no root and no registered root carried
\* the hash of its base root (two entries when the store was built with one
\* participant and Reset was not called).
C13_PeerJoinAfterReset ==
    [][ \A peer \in Peers :
            (last'.op = "NewPeer" /\ last'.arg = peer) =>
                /\ C13_Registered(peer)
                /\ \A before \in ReverseIndexes : \A after \in ReverseIndexes' :
                       /\ DOMAIN after = RootHashes'
                       /\ after[HashSet(NewBaseRoot(PeerID(peer)).Hash)] =
                              NewBaseRoot(PeerID(peer))
                       /\ (/\ peer \notin DOMAIN rootsByParticipant
                           /\ HashSet(NewBaseRoot(PeerID(peer)).Hash)
                                  \notin RootHashes)
                             => Cardinality(DOMAIN after) =
                                    Cardinality(DOMAIN before) + 1
                       /\ (Cardinality(participants) = 1 /\ ~hist.reset)
                             => Cardinality(DOMAIN after) = 2
      ]_vars

\* P2 joined a store built with P1 that holds two events of P1: two entries in
\* the reverse index, P1's events as before.
C13_Witness ==
    /\ last.op = "NewPeer"
    /\ last.arg = "P2"
    /\ ~hist.reset
    /\ Len(rootsBySelfParent) = 1
    /\ Cardinality(DOMAIN rootsBySelfParent[1]) = 2
    /\ cacheSize = 2
    /\ Len(ParticipantEvents("P1", -1).hashes) = 2
    /\ GetRoot("P2").root.Index = -1

\* C14 as stated: in every state between operations, reached by construction,
\* new-peer callbacks and Reset(roots) calls, GetRoot(p) succeeds for every
\* participant p of the peer set.  Reset installs the map it is given, so a
\* map that omits a participant leaves that participant without a root.
C14_EveryParticipantHasRoot ==
    \A p \in participants : GetRoot(p).err = NoErr

\* What the getter of a read returns before the Reset (of = obs.pre) and
\* after an uninterrupted Reset (of = obs.post).
C15_Value(read, of) ==
    IF read.get = "GetRoot"
    THEN IF read.arg \in DOMAIN of.roots
         THEN [err |-> NoErr, root |-> of.roots[read.arg]]
         ELSE [err |-> KeyNotFound, root |-> <<>>]
    ELSE IF read.get = "LastRound" THEN of.lastRound
    ELSE of.lastBlock

\* The read tells the store before the Reset from the store after it.
C15_Telling(read) == C15_Value(read, obs.pre) # C15_Value(read, obs.post)

\* C15 as stated: no thread running concurrently with Reset(roots) observes a
\* partially-reset store: with no other call in between, a getter does not
\* return a pre-reset value after another getter returned the post-reset
\* value (GetRoot the new root and then LastRound() or LastBlockIndex() the
\* old value, or LastRound() = -1 and then LastBlockIndex() the old value).
\* Reset holds a lock only around each of its last two assignments, so the
\* reader sees every intermediate state.
C15_ResetAtomic ==
    \A i, j \in 1..Len(obs.reads) :
        (/\ i < j
         /\ obs.reads[i].quiet /\ obs.reads[j].quiet
         /\ C15_Telling(obs.reads[i]) /\ C15_Telling(obs.reads[j])
         /\ obs.reads[i].val = C15_Value(obs.reads[i], obs.post))
          => obs.reads[j].val = C15_Value(obs.reads[j], obs.post)

\* C17: RoundClothos(r) and RoundEvents(r) never report an error; for a round
\* that was never set since construction or the last Reset, or that is no
\* longer in the created-round store, they return the empty hash list and 0,
\* and for a round in the store they return its clotho hashes and its number
\* of events.
C17_RoundProbes ==
    \A r \in Rounds :
        (last.op \in {"RoundClothos", "RoundEvents"} /\ last.arg = r) =>
            LET present == LruContains(roundCreatedCache, r)
                round == LruEntry(roundCreatedCache, r).value
            IN  /\ last.err = NoErr
                /\ r \notin hist.created => ~present
                /\ last.op = "RoundClothos" =>
                       last.ret = IF present THEN round.clotho ELSE <<>>
                /\ last.op = "RoundEvents" =>
                       last.ret = IF present THEN round.events ELSE 0

\* RoundEvents was asked for a round that was set and evicted since, while
\* another round is in the store.
C17_Witness ==
    /\ last.op = "RoundEvents"
    /\ last.arg \in hist.created
    /\ ~LruContains(roundCreatedCache, last.arg)
    /\ Len(roundCreatedCache) = 1
    /\ last.ret = 0
    /\ ~hist.reset

\* The indexes ParticipantEvent is asked for.
C19_Indexes == -1..(MaxIndex + 1)

\* C19: when index i of p is not in the participant-events index,
\* ParticipantEvent(p, i) returns the root's self-parent hash with a nil error
\* if and only if p has a root and root.SelfParent.Index = i; if p has no
\* root it returns a no-root error, and if the root's index differs from i it
\* returns the error of the lookup unchanged.
C19_RootFallback ==
    \A p \in Peers, i \in C19_Indexes :
        LET item == PecGetItem(participantEventsCache, p, i)
            got == ParticipantEvent(p, i)
            rooted == p \in DOMAIN rootsByParticipant
        IN  item.err # NoErr =>
                /\ got.err = NoErr <=> (rooted /\ rootsByParticipant[p].Index = i)
                /\ got.err = NoErr =>
                       got.hash = HashSet(rootsByParticipant[p].Hash)
                /\ ~rooted => got.err = NoRoot
                /\ (rooted /\ rootsByParticipant[p].Index # i) => got = item

\* After a Reset that gave P1 a root of index 0 and P2 none: index 0 of P1 is
\* answered by the root, index -1 of P1 by the error of the lookup, and P2 by
\* a no-root error.
C19_Witness ==
    /\ hist.reset
    /\ participants = Peers
    /\ DOMAIN rootsByParticipant = {"P1"}
    /\ rootsByParticipant["P1"].Index = 0
    /\ PecGetItem(participantEventsCache, "P1", 0).err = KeyNotFound
    /\ ParticipantEvent("P1", 0) =
           [err |-> NoErr, hash |-> HashSet(rootsByParticipant["P1"].Hash)]
    /\ ParticipantEvent("P1", -1).err = TooLow
    /\ ParticipantEvent("P2", -1).err = NoRoot

\* C18 as stated: when SetRoundCreated / SetRoundReceived run concurrently
\* with Reset, in the state reached after all calls have returned LastRound()
\* is at least every round r for which GetRoundCreated(r) or
\* GetRoundReceived(r) succeeds.  Reset replaces the round caches and rewinds
\* lastRound in separate steps, so a setter between them stores a round in a
\* new cache and has its lastRound rewound afterwards.
C18_RoundsBelowLastRound ==
    (\A t \in Threads : calls[t] = Idle) =>
        \A r \in Rounds :
            (RoundCreatedErr(r) = NoErr \/ RoundReceivedErr(r) = NoErr)
                => LastRound >= r

\* The returns of AddConsensusEvent among the first k returns.
C16_Adds(k) ==
    { i \in 1..k : obs.reads[i].get = "AddConsensusEvent" }

\* The events of the returned AddConsensusEvent calls of creator c.
C16_AddsOf(c) ==
    { i \in C16_Adds(Len(obs.reads)) : GetCreator(obs.reads[i].arg) = c }

\* C16: with threads calling AddConsensusEvent concurrently, no two calls use
\* the same position and no increment is lost (the count is the number of
\* calls that returned, the positions are 0, 1, 2, ... in the order of
\* return), and when ConsensusEventsCount() returns n, every call that
\* returned before is included in n; whenever a reader can take the lock,
\* every returned call has taken effect: the index holds the last
\* min(n, cacheSize) hashes in order, its total is n, and lastConsensusEvents
\* holds for each creator the hash of its last returned call.
C16_CounterLinearizable ==
    LET n == Len(obs.reads)
    IN  /\ \A i, j \in C16_Adds(n) :
               obs.reads[i].val = obs.reads[j].val => i = j
        /\ \A i \in C16_Adds(n) :
               obs.reads[i].val = Cardinality(C16_Adds(i)) - 1
        /\ \A j \in 1..n :
               obs.reads[j].get = "ConsensusEventsCount" =>
                   /\ obs.reads[j].val >= Cardinality(C16_Adds(j))
                   /\ obs.reads[j].val <= ops
        /\ LockFree =>
               /\ ConsensusEventsCount = Cardinality(C16_Adds(n))
               /\ ConsensusEventsCount = Len(hist.added)
               /\ consensusCache.total = ConsensusEventsCount
               /\ ConsensusEvents =
                      LastN(hist.added, Min(Len(hist.added), cacheSize))
               /\ \A c \in Peers :
                      C16_AddsOf(c) # {} =>
                          LastConsensusEventFrom(c) =
                              [last |-> Hash(obs.reads[MaxOf(C16_AddsOf(c))].arg),
                               isRoot |-> FALSE, err |-> NoErr]

\* A call returned and a reader got the count 1; now T1 is inside its next
\* call, past the increment, and T2 waits for the lock with its own call.
C16_Witness ==
    /\ totConsensusEventsLocker = "T1"
    /\ calls["T1"].pc = "Last"
    /\ calls["T2"].pc = "Lock"
    /\ totConsensusEvents = 2
    /\ \E j \in 1..Len(obs.reads) :
           /\ obs.reads[j].get = "ConsensusEventsCount"
           /\ obs.reads[j].val = 1
           /\ Cardinality(C16_Adds(j)) = 1

\* C20: Reset(roots) leaves the block store, the frame store, the
\* last-consensus-event map and the repertoire mirrors unchanged: GetBlock(i)
\* and GetFrame(r) return after Reset every block and frame they returned
\* before, and LastConsensusEventFrom(p) returns the pre-reset hash with
\* isRoot = false for every p that had a consensus event.
C20_ResetKeeps ==
    [][ last'.op = "Reset" =>
            /\ blockCache' = blockCache
            /\ frameCache' = frameCache
            /\ \A index \in BlockIndexes :
                   BlockErr(index) = NoErr => BlockErr(index)' = NoErr
            /\ \A r \in Rounds :
                   LruContains(frameCache, r) => LruContains(frameCache', r)
            /\ lastConsensusEvents' = lastConsensusEvents
            /\ \A p \in DOMAIN lastConsensusEvents :
                   LastConsensusEventFrom(p)' =
                       [last |-> lastConsensusEvents[p], isRoot |-> FALSE,
                        err |-> NoErr]
            /\ repertoireByPubKey' = repertoireByPubKey
            /\ repertoireByID' = repertoireByID
      ]_vars

\* A Reset that gave P1 a root, after a block and a frame were set and a
\* consensus event of P1 was added: block, frame and P1's last consensus
\* event are still returned.
C20_Witness ==
    /\ last.op = "Reset"
    /\ "P1" \in DOMAIN last.arg
    /\ \E index \in BlockIndexes : BlockErr(index) = NoErr
    /\ \E r \in Rounds : LruContains(frameCache, r)
    /\ LastConsensusEventFrom("P1").err = NoErr
    /\ ~LastConsensusEventFrom("P1").isRoot
    /\ LastBlockIndex = -1

====
